---- MODULE Spec2Model ----
(***************************************************************************)
(* A model of the Caesar cipher core (caesar_cipher.py, class CaesarCipher) *)
(* and of the interactive shell that drives it (cli.py).                    *)
(*                                                                          *)
(* A character is a one-character string; a text is a sequence of           *)
(* characters.  Characters outside ASCII are written by name: "KELVIN" is   *)
(* U+212A (KELVIN SIGN), "I_DOT" is U+0130 (LATIN CAPITAL LETTER I WITH DOT *)
(* ABOVE) and "COMBINING_DOT" is U+0307 (COMBINING DOT ABOVE).              *)
(*                                                                          *)
(* A Python value is a record [tag, n, s, cls]: tag is the type's name, n   *)
(* the integer payload (int, bool, the truncated value of a float), s the   *)
(* characters of a str or bytes, cls the class of a float ("finite",        *)
(* "inf", "nan"; "" otherwise).                                             *)
(***************************************************************************)
EXTENDS Integers, Sequences, FiniteSets

VARIABLES op, text, shift, result,
          pc, cli_text, shift_input, core_call, ncalls, rejected

core_vars == <<op, text, shift, result>>
cli_vars == <<pc, cli_text, shift_input, core_call, ncalls, rejected>>
vars == <<op, text, shift, result, pc, cli_text, shift_input, core_call, ncalls, rejected>>

\* ---------------------------------------------------------------- bounds

\* Longest text handed to the core.
MaxLen == 3
\* Longest shift entry typed at the interactive prompt.
MaxEntryLen == 2
\* Core calls made from one interactive session.
MaxCalls == 2
\* Invalid shift entries typed in one flow.
MaxRejected == 2

\* ---------------------------------------------------------- Python values

PyInt(i) == [tag |-> "int", n |-> i, s |-> <<>>, cls |-> ""]
PyBool(b) == [tag |-> "bool", n |-> IF b THEN 1 ELSE 0, s |-> <<>>, cls |-> ""]
PyStr(chars) == [tag |-> "str", n |-> 0, s |-> chars, cls |-> ""]
PyBytes(chars) == [tag |-> "bytes", n |-> 0, s |-> chars, cls |-> ""]
PyNone == [tag |-> "NoneType", n |-> 0, s |-> <<>>, cls |-> ""]
PyList == [tag |-> "list", n |-> 0, s |-> <<>>, cls |-> ""]
\* A float: its class, the integer it truncates to, and whether it has a
\* fractional part (s = <<"frac">>).
PyFloat(c, trunc, frac) ==
    [tag |-> "float", n |-> trunc, s |-> IF frac THEN <<"frac">> ELSE <<>>, cls |-> c]

\* isinstance(v, str)
IsStr(v) == v.tag = "str"
\* isinstance(v, int): bool is a subclass of int.
IsInt(v) == v.tag \in {"int", "bool"}

\* What a call leaves behind: it returns value, or raises exc.
Return(v) == [outcome |-> "return", exc |-> "", value |-> v]
Raise(e) == [outcome |-> "raise", exc |-> e, value |-> <<>>]

\* ------------------------------------------------------------- alphabets

lowercase_letters ==
    <<"a", "b", "c", "d", "e", "f", "g", "h", "i", "j", "k", "l", "m",
      "n", "o", "p", "q", "r", "s", "t", "u", "v", "w", "x", "y", "z">>
uppercase_letters ==
    <<"A", "B", "C", "D", "E", "F", "G", "H", "I", "J", "K", "L", "M",
      "N", "O", "P", "Q", "R", "S", "T", "U", "V", "W", "X", "Y", "Z">>
alphabet_size == 26

\* char in letters, for a one-character char.
In(char, letters) == \E i \in 1..Len(letters) : letters[i] = char
\* letters.index(char): the zero-based place of the first occurrence.
Index(letters, char) ==
    (CHOOSE i \in 1..Len(letters) :
        letters[i] = char /\ \A j \in 1..(i - 1) : letters[j] # char) - 1
\* letters[index], zero-based.
At(letters, index) == letters[index + 1]

\* --------------------------------------------------------------- encrypt

\* The normalization with a truncating remainder, which keeps the sign of
\* the shift: what "%" would give where it is not a floor modulo.
NormalizeTruncating(s) == IF s < 0 THEN -((-s) % alphabet_size) ELSE s % alphabet_size
\* shift % self.alphabet_size: Python's % takes the sign of the divisor.
NormalizeShift(s) == s % alphabet_size

\* The loop body without the wrap-around: a letter pushed past the end of
\* its alphabet stays as it is.
EncryptCharNoWrap(char, k) ==
    IF In(char, lowercase_letters)
    THEN LET old_index == Index(lowercase_letters, char)
             new_index == old_index + k
         IN IF new_index < alphabet_size THEN At(lowercase_letters, new_index)
            ELSE char
    ELSE IF In(char, uppercase_letters)
    THEN LET old_index == Index(uppercase_letters, char)
             new_index == old_index + k
         IN IF new_index < alphabet_size THEN At(uppercase_letters, new_index)
            ELSE char
    ELSE char
\* One pass of the loop body: the character appended for char.
EncryptChar(char, k) ==
    IF In(char, lowercase_letters)
    THEN LET old_index == Index(lowercase_letters, char)
             new_index == (old_index + k) % alphabet_size
         IN At(lowercase_letters, new_index)
    ELSE IF In(char, uppercase_letters)
    THEN LET old_index == Index(uppercase_letters, char)
             new_index == (old_index + k) % alphabet_size
         IN At(uppercase_letters, new_index)
    ELSE char

\* The for loop: encrypted_text after the characters of chars.
RECURSIVE EncryptLoop(_, _)
EncryptLoop(chars, k) ==
    IF chars = <<>> THEN <<>>
    ELSE <<EncryptChar(Head(chars), k)>> \o EncryptLoop(Tail(chars), k)

\* encrypt with the type of shift looked at only when the first letter is
\* reached: the characters before it are already appended when it fails.
EncryptRunLazyCheck(t, sh) ==
    IF ~IsStr(t)
    THEN [outcome |-> "raise", exc |-> "TypeError", value |-> <<>>,
          shift |-> sh, encrypted_text |-> <<>>]
    ELSE LET firstLetter ==
                 IF \E i \in 1..Len(t.s) :
                        In(t.s[i], lowercase_letters) \/ In(t.s[i], uppercase_letters)
                 THEN CHOOSE i \in 1..Len(t.s) :
                        /\ In(t.s[i], lowercase_letters) \/ In(t.s[i], uppercase_letters)
                        /\ \A j \in 1..(i - 1) :
                              ~(In(t.s[j], lowercase_letters) \/ In(t.s[j], uppercase_letters))
                 ELSE Len(t.s) + 1
         IN IF IsInt(sh)
            THEN [outcome |-> "return", exc |-> "",
                  value |-> EncryptLoop(t.s, NormalizeShift(sh.n)),
                  shift |-> PyInt(NormalizeShift(sh.n)),
                  encrypted_text |-> EncryptLoop(t.s, NormalizeShift(sh.n))]
            ELSE IF firstLetter > Len(t.s)
            THEN [outcome |-> "return", exc |-> "", value |-> t.s,
                  shift |-> sh, encrypted_text |-> t.s]
            ELSE [outcome |-> "raise", exc |-> "TypeError", value |-> <<>>,
                  shift |-> sh, encrypted_text |-> SubSeq(t.s, 1, firstLetter - 1)]
\* A run of encrypt: how it ends, with the locals shift (as last assigned)
\* and encrypted_text (empty while the list does not exist yet).
EncryptRun(t, sh) ==
    IF ~IsStr(t)
    THEN [outcome |-> "raise", exc |-> "TypeError", value |-> <<>>,
          shift |-> sh, encrypted_text |-> <<>>]
    ELSE IF ~IsInt(sh)
    THEN [outcome |-> "raise", exc |-> "TypeError", value |-> <<>>,
          shift |-> sh, encrypted_text |-> <<>>]
    ELSE LET k == NormalizeShift(sh.n)
             encrypted_text == EncryptLoop(t.s, k)
         IN [outcome |-> "return", exc |-> "", value |-> encrypted_text,
             shift |-> PyInt(k), encrypted_text |-> encrypted_text]

\* --------------------------------------------------------------- decrypt

\* -shift: defined on int, bool and float; a TypeError on anything else.
Negate(sh) ==
    IF IsInt(sh) THEN Return(PyInt(-sh.n))
    ELSE IF sh.tag = "float" THEN Return([sh EXCEPT !.n = -sh.n])
    ELSE Raise("TypeError")

\* decrypt passing the shift on as it is.
DecryptRunNoNegation(ciphertext, sh) == EncryptRun(ciphertext, sh)
\* A run of decrypt: encrypt with the negated shift.
DecryptRun(ciphertext, sh) ==
    LET neg == Negate(sh)
    IN IF neg.outcome = "raise"
       THEN [outcome |-> "raise", exc |-> neg.exc, value |-> <<>>,
             shift |-> sh, encrypted_text |-> <<>>]
       ELSE EncryptRun(ciphertext, neg.value)

\* ----------------------------------------------------------- brute_force

\* The loop calling encrypt where it should call decrypt.
RECURSIVE BruteForceLoopEncrypting(_, _)
BruteForceLoopEncrypting(ciphertext, k) ==
    IF k >= alphabet_size THEN <<>>
    ELSE <<[shift |-> k, text |-> EncryptRun(ciphertext, PyInt(k)).value]>>
         \o BruteForceLoopEncrypting(ciphertext, k + 1)
\* The loop over range(self.alphabet_size), from shift k on: the pairs
\* (shift, decrypted) appended to results.
RECURSIVE BruteForceLoop(_, _)
BruteForceLoop(ciphertext, k) ==
    IF k >= alphabet_size THEN <<>>
    ELSE <<[shift |-> k, text |-> DecryptRun(ciphertext, PyInt(k)).value]>>
         \o BruteForceLoop(ciphertext, k + 1)

BruteForceRun(ciphertext) ==
    IF ~IsStr(ciphertext) THEN Raise("TypeError")
    ELSE Return(BruteForceLoop(ciphertext, 0))

\* -------------------------------------------------------- is_valid_shift

digits == <<"0", "1", "2", "3", "4", "5", "6", "7", "8", "9">>
\* The characters str.strip() removes, as far as the model's entries go.
Whitespace == {" "}

RECURSIVE LStrip(_)
LStrip(chars) ==
    IF chars # <<>> /\ Head(chars) \in Whitespace THEN LStrip(Tail(chars)) ELSE chars
RECURSIVE RStrip(_)
RStrip(chars) ==
    IF chars # <<>> /\ chars[Len(chars)] \in Whitespace
    THEN RStrip(SubSeq(chars, 1, Len(chars) - 1)) ELSE chars

\* A digit string as int() reads one: digits, single underscores between them.
IsDigits(body) ==
    /\ body # <<>>
    /\ In(body[1], digits) /\ In(body[Len(body)], digits)
    /\ \A i \in 1..Len(body) : In(body[i], digits) \/ body[i] = "_"
    /\ \A i \in 1..(Len(body) - 1) : ~(body[i] = "_" /\ body[i + 1] = "_")
RECURSIVE DigitsValue(_, _)
DigitsValue(body, acc) ==
    IF body = <<>> THEN acc
    ELSE IF Head(body) = "_" THEN DigitsValue(Tail(body), acc)
    ELSE DigitsValue(Tail(body), 10 * acc + Index(digits, Head(body)))

\* int(chars) in base 10: surrounding whitespace, one optional sign, digits.
ParseInt(chars) ==
    LET stripped == RStrip(LStrip(chars))
        signed == stripped # <<>> /\ stripped[1] \in {"+", "-"}
        body == IF signed THEN Tail(stripped) ELSE stripped
    IN IF ~IsDigits(body) THEN Raise("ValueError")
       ELSE IF signed /\ stripped[1] = "-" THEN Return(PyInt(-DigitsValue(body, 0)))
       ELSE Return(PyInt(DigitsValue(body, 0)))

\* The builtin int(v).
IntOf(v) ==
    IF IsInt(v) THEN Return(PyInt(v.n))
    ELSE IF v.tag = "float"
    THEN IF v.cls = "nan" THEN Raise("ValueError")
         ELSE IF v.cls = "inf" THEN Raise("OverflowError")
         ELSE Return(PyInt(v.n))
    ELSE IF v.tag \in {"str", "bytes"} THEN ParseInt(v.s)
    ELSE Raise("TypeError")

IsValidShiftRun(candidate) ==
    LET shift_int == IntOf(candidate)
    IN IF shift_int.outcome = "return" THEN Return(PyBool(TRUE))
       ELSE IF shift_int.exc \in {"ValueError", "TypeError"} THEN Return(PyBool(FALSE))
       ELSE Raise(shift_int.exc)

\* ------------------------------------------------- floating-point values
\* The percentages are IEEE-754 doubles.  A natural number too wide for a
\* machine word is a sequence of limbs in base 2^15, least significant
\* first, with no leading zero limb; a positive double is [m, e], standing
\* for m * 2^e with 2^52 <= m < 2^53.

LimbBase == 32768
LimbBits == 15
MantissaBits == 53

RECURSIVE BigNorm(_)
BigNorm(a) ==
    IF a # <<>> /\ a[Len(a)] = 0 THEN BigNorm(SubSeq(a, 1, Len(a) - 1)) ELSE a
RECURSIVE BigFromInt(_)
BigFromInt(i) ==
    IF i = 0 THEN <<>> ELSE <<i % LimbBase>> \o BigFromInt(i \div LimbBase)
RECURSIVE BigMulCarry(_, _, _)
BigMulCarry(a, k, carry) ==
    IF a = <<>> THEN BigFromInt(carry)
    ELSE LET p == Head(a) * k + carry
         IN <<p % LimbBase>> \o BigMulCarry(Tail(a), k, p \div LimbBase)
\* a * k for 0 <= k < 2^15.
BigMulSmall(a, k) == BigNorm(BigMulCarry(a, k, 0))
\* a divided by d, 0 < d <= 2^15: [q, r] with a = q * d + r and 0 <= r < d.
RECURSIVE BigDivRaw(_, _)
BigDivRaw(a, d) ==
    IF a = <<>> THEN [q |-> <<>>, r |-> 0]
    ELSE LET high == BigDivRaw(Tail(a), d)
             cur == high.r * LimbBase + Head(a)
         IN [q |-> <<cur \div d>> \o high.q, r |-> cur % d]
BigDivSmall(a, d) == LET raw == BigDivRaw(a, d) IN [q |-> BigNorm(raw.q), r |-> raw.r]
RECURSIVE BigAddCarry(_, _, _)
BigAddCarry(a, b, carry) ==
    IF a = <<>> /\ b = <<>> THEN BigFromInt(carry)
    ELSE LET x == IF a = <<>> THEN 0 ELSE Head(a)
             y == IF b = <<>> THEN 0 ELSE Head(b)
             sum == x + y + carry
         IN <<sum % LimbBase>>
            \o BigAddCarry(IF a = <<>> THEN a ELSE Tail(a),
                           IF b = <<>> THEN b ELSE Tail(b), sum \div LimbBase)
BigAdd(a, b) == BigNorm(BigAddCarry(a, b, 0))
\* a < b, a = b or a > b as -1, 0, 1.
RECURSIVE BigCmpFrom(_, _, _)
BigCmpFrom(a, b, i) ==
    IF i = 0 THEN 0
    ELSE IF a[i] < b[i] THEN -1
    ELSE IF a[i] > b[i] THEN 1
    ELSE BigCmpFrom(a, b, i - 1)
BigCmp(a, b) ==
    IF Len(a) < Len(b) THEN -1
    ELSE IF Len(a) > Len(b) THEN 1
    ELSE BigCmpFrom(a, b, Len(a))
\* a - b for a >= b.
RECURSIVE BigSubBorrow(_, _, _)
BigSubBorrow(a, b, borrow) ==
    IF a = <<>> THEN <<>>
    ELSE LET y == IF b = <<>> THEN 0 ELSE Head(b)
             diff == Head(a) - y - borrow
         IN <<diff % LimbBase>>
            \o BigSubBorrow(Tail(a), IF b = <<>> THEN b ELSE Tail(b),
                            IF diff < 0 THEN 1 ELSE 0)
BigSub(a, b) == BigNorm(BigSubBorrow(a, b, 0))
\* |a - b|
BigDist(a, b) == IF BigCmp(a, b) >= 0 THEN BigSub(a, b) ELSE BigSub(b, a)

RECURSIVE Pow2(_)
Pow2(k) == IF k = 0 THEN 1 ELSE 2 * Pow2(k - 1)
RECURSIVE BitLen(_)
BitLen(i) == IF i = 0 THEN 0 ELSE 1 + BitLen(i \div 2)
BigBitLen(a) ==
    IF a = <<>> THEN 0 ELSE LimbBits * (Len(a) - 1) + BitLen(a[Len(a)])
\* a * 2^k
RECURSIVE BigShl(_, _)
BigShl(a, k) ==
    IF k = 0 THEN a
    ELSE IF k >= LimbBits - 1
    THEN BigShl(BigMulSmall(a, Pow2(LimbBits - 1)), k - (LimbBits - 1))
    ELSE BigMulSmall(a, Pow2(k))
BigIsOdd(a) == a # <<>> /\ a[1] % 2 = 1

\* q, or q + 1, by round-half-to-even on the remainder r of a division by d.
RoundHalfEven(q, r, d) ==
    IF 2 * r > d \/ (2 * r = d /\ BigIsOdd(q)) THEN BigAdd(q, BigFromInt(1)) ELSE q
\* [m, e] with m brought back under 2^53 after a carry out of the rounding.
FloatNorm(m, e) ==
    IF BigBitLen(m) > MantissaBits
    THEN [m |-> BigDivSmall(m, 2).q, e |-> e + 1] ELSE [m |-> m, e |-> e]

\* c / t for integers c, t > 0: the double nearest the quotient.
FloatDiv(c, t) ==
    LET probe == BigDivSmall(BigShl(BigFromInt(c), 60), t).q
        k == 60 + MantissaBits - BigBitLen(probe)
        qr == BigDivSmall(BigShl(BigFromInt(c), k), t)
    IN FloatNorm(RoundHalfEven(qr.q, qr.r, t), -k)
\* x * i for a double x and an integer 0 < i < 2^15: the double nearest the product.
FloatMul(x, i) ==
    LET p == BigMulSmall(x.m, i)
        d == BigBitLen(p) - MantissaBits
        qr == BigDivSmall(p, Pow2(d))
    IN FloatNorm(RoundHalfEven(qr.q, qr.r, Pow2(d)), x.e + d)

\* ----------------------------------------------------- analyze_frequency

\* str.lower() of one character: the characters it becomes.  The two
\* characters outside ASCII whose lowercase form holds an ASCII letter are
\* KELVIN SIGN (k) and I WITH DOT ABOVE (i, then a combining dot).
LowerChar(char) ==
    IF In(char, uppercase_letters)
    THEN <<At(lowercase_letters, Index(uppercase_letters, char))>>
    ELSE IF char = "KELVIN" THEN <<"k">>
    ELSE IF char = "I_DOT" THEN <<"i", "COMBINING_DOT">>
    ELSE <<char>>
\* text.lower()
RECURSIVE Lower(_)
Lower(chars) ==
    IF chars = <<>> THEN <<>> ELSE LowerChar(Head(chars)) \o Lower(Tail(chars))

\* The empty dict; a dict is a function from its keys.
EmptyDict == [l \in {} |-> 0]

\* The counting loop adding every character, letter or not, to total_letters.
RECURSIVE CountLoopCountingAll(_, _, _)
CountLoopCountingAll(chars, frequency, total_letters) ==
    IF chars = <<>> THEN [frequency |-> frequency, total_letters |-> total_letters]
    ELSE LET char == Head(chars)
         IN IF In(char, lowercase_letters)
            THEN CountLoopCountingAll(Tail(chars),
                     [l \in DOMAIN frequency \cup {char} |->
                         (IF l \in DOMAIN frequency THEN frequency[l] ELSE 0)
                         + (IF l = char THEN 1 ELSE 0)],
                     total_letters + 1)
            ELSE CountLoopCountingAll(Tail(chars), frequency, total_letters + 1)
\* The counting loop: frequency and total_letters after the characters of chars.
RECURSIVE CountLoop(_, _, _)
CountLoop(chars, frequency, total_letters) ==
    IF chars = <<>> THEN [frequency |-> frequency, total_letters |-> total_letters]
    ELSE LET char == Head(chars)
         IN IF In(char, lowercase_letters)
            THEN CountLoop(Tail(chars),
                     [l \in DOMAIN frequency \cup {char} |->
                         (IF l \in DOMAIN frequency THEN frequency[l] ELSE 0)
                         + (IF l = char THEN 1 ELSE 0)],
                     total_letters + 1)
            ELSE CountLoop(Tail(chars), frequency, total_letters)

\* The conversion loop: (frequency[letter] / total_letters) * 100.
Percentages(frequency, total_letters) ==
    [letter \in DOMAIN frequency |->
        FloatMul(FloatDiv(frequency[letter], total_letters), 100)]

\* A run of analyze_frequency.  text.lower() does not exist on a value that
\* is neither str nor bytes (AttributeError); the characters of a bytes
\* value are integers, which "in" refuses to look up in a str (TypeError),
\* so that only the empty bytes value gets through the loop.
AnalyzeFrequencyRun(t) ==
    IF t.tag = "str"
    THEN LET counted == CountLoop(Lower(t.s), EmptyDict, 0)
         IN [outcome |-> "return", exc |-> "",
             value |-> Percentages(counted.frequency, counted.total_letters),
             total_letters |-> counted.total_letters]
    ELSE IF t.tag = "bytes"
    THEN IF t.s = <<>>
         THEN [outcome |-> "return", exc |-> "", value |-> EmptyDict, total_letters |-> 0]
         ELSE [outcome |-> "raise", exc |-> "TypeError", value |-> EmptyDict,
               total_letters |-> 0]
    ELSE [outcome |-> "raise", exc |-> "AttributeError", value |-> EmptyDict,
          total_letters |-> 0]

\* ------------------------------------------------------ the core's calls

\* The characters texts are made of: letters of both cases at both ends of
\* the alphabet, a digit, and characters outside ASCII.
Chars == {"a", "z", "A", "Z", "1", "KELVIN", "I_DOT"}
RECURSIVE SeqsUpTo(_, _)
SeqsUpTo(S, k) ==
    IF k = 0 THEN {<<>>}
    ELSE LET shorter == SeqsUpTo(S, k - 1)
         IN shorter \cup {<<c>> \o w : c \in S, w \in {x \in shorter : Len(x) = k - 1}}
Texts == SeqsUpTo(Chars, MaxLen)

\* The text arguments: every text, and values that are not a str.
TextArgs ==
    {PyStr(w) : w \in Texts}
    \cup {PyInt(123), PyNone, PyList, PyBytes(<<>>), PyBytes(<<"a", "b">>)}
\* The integer shifts: negative, zero, beyond 25, and of large magnitude.
IntShifts == {-1000000, -1000, -27, -26, -3, -1, 0, 1, 3, 25, 26, 1000}
\* The shift arguments: the integers, and values that are not an int.
ShiftArgs ==
    {PyInt(i) : i \in IntShifts}
    \cup {PyBool(TRUE), PyStr(<<"a", "b", "c">>), PyStr(<<"3">>), PyNone, PyList,
          PyFloat("finite", 1, TRUE)}
\* The candidates is_valid_shift is asked about.
Candidates ==
    ShiftArgs
    \cup {PyStr(w) : w \in {<<"4", "2">>, <<"-", "5">>, <<" ", "7", " ">>, <<"1", "_", "0">>,
                            <<"3", ".", "0">>, <<"-", "-", "5">>, <<>>, <<"_", "1">>}}
    \cup {PyFloat("finite", 3, TRUE), PyFloat("finite", -2, FALSE),
          PyFloat("inf", 0, FALSE), PyFloat("nan", 0, FALSE), PyBytes(<<"1", "2">>)}

NoResult == [outcome |-> "none", exc |-> "", value |-> <<>>]

encrypt(t, sh) ==
    /\ op = "idle"
    /\ op' = "encrypt" /\ text' = t /\ shift' = sh
    /\ result' = EncryptRun(t, sh)
    /\ UNCHANGED cli_vars

decrypt(t, sh) ==
    /\ op = "idle"
    /\ op' = "decrypt" /\ text' = t /\ shift' = sh
    /\ result' = DecryptRun(t, sh)
    /\ UNCHANGED cli_vars

\* decrypted = cipher.decrypt(encrypted, shift_value), on the text the
\* encrypt call before it returned.
decrypt_encrypted ==
    /\ op = "encrypt" /\ result.outcome = "return"
    /\ op' = "round_trip"
    /\ result' = DecryptRun(PyStr(result.value), shift)
    /\ UNCHANGED <<text, shift>>
    /\ UNCHANGED cli_vars

\* results = cipher.brute_force(ciphertext), on the text the encrypt call
\* before it returned.
brute_force_encrypted ==
    /\ op = "encrypt" /\ result.outcome = "return"
    /\ op' = "brute_force_encrypted"
    /\ result' = BruteForceRun(PyStr(result.value))
    /\ UNCHANGED <<text, shift>>
    /\ UNCHANGED cli_vars

brute_force(t) ==
    /\ op = "idle"
    /\ op' = "brute_force" /\ text' = t /\ shift' = PyNone
    /\ result' = BruteForceRun(t)
    /\ UNCHANGED cli_vars

is_valid_shift(candidate) ==
    /\ op = "idle"
    /\ op' = "is_valid_shift" /\ text' = PyNone /\ shift' = candidate
    /\ result' = IsValidShiftRun(candidate)
    /\ UNCHANGED cli_vars

analyze_frequency(t) ==
    /\ op = "idle"
    /\ op' = "analyze_frequency" /\ text' = t /\ shift' = PyNone
    /\ result' = AnalyzeFrequencyRun(t)
    /\ UNCHANGED cli_vars

CliIdle ==
    /\ pc = "menu" /\ cli_text = <<>> /\ shift_input = <<>>
    /\ core_call = [fn |-> "none", text |-> PyNone, shift |-> PyNone]
    /\ ncalls = 0 /\ rejected = 0

Init ==
    /\ op = "idle" /\ text = PyNone /\ shift = PyNone /\ result = NoResult
    /\ CliIdle

Next ==
    \/ op = "idle" /\ \E t \in TextArgs, sh \in ShiftArgs : encrypt(t, sh)
    \/ op = "idle" /\ \E t \in TextArgs, sh \in ShiftArgs : decrypt(t, sh)
    \/ decrypt_encrypted
    \/ brute_force_encrypted
    \/ op = "idle" /\ \E t \in TextArgs : brute_force(t)
    \/ op = "idle" /\ \E c \in Candidates : is_valid_shift(c)
    \/ op = "idle" /\ \E t \in TextArgs : analyze_frequency(t)

Spec == Init /\ [][Next]_vars

\* ------------------------------------------------- the interactive shell
\* pc is where the shell waits for input(): at the menu, at a flow's text
\* prompt or at its shift prompt; "exit" once it has returned, "eof" once
\* input() has raised EOFError, "crashed" once any other exception has left
\* a flow.  cli_text and shift_input are the flow's locals text and
\* shift_input, core_call the call the flow made to the core; they keep
\* their values until the next flow starts.

\* What is typed at the menu.
Choices == {<<"1">>, <<"2">>, <<"3">>, <<"4">>, <<"5">>, <<"9">>, <<" ", "2", " ">>, <<>>}
\* What is typed at a text prompt.
CliTexts == {<<>>, <<"H", "i", "1">>, <<"z">>}
\* What is typed at a shift prompt.
EntryChars == {"2", "7", "-", " ", "x"}
Entries == SeqsUpTo(EntryChars, MaxEntryLen)

NoCall == [fn |-> "none", text |-> PyNone, shift |-> PyNone]
ShiftPrompts == {"encrypt_shift", "decrypt_shift"}
TextPrompts == {"encrypt_text", "decrypt_text", "brute_force_text", "frequency_text"}

\* The menu loop of interactive_mode, from one input() to the next.
interactive_mode(typed) ==
    /\ pc = "menu"
    /\ LET choice == RStrip(LStrip(typed))
       IN IF choice \in {<<"1">>, <<"2">>, <<"3">>, <<"4">>}
          THEN /\ ncalls < MaxCalls
               /\ pc' = CASE choice = <<"1">> -> "encrypt_text"
                          [] choice = <<"2">> -> "decrypt_text"
                          [] choice = <<"3">> -> "brute_force_text"
                          [] OTHER -> "frequency_text"
               /\ cli_text' = <<>> /\ shift_input' = <<>>
               /\ core_call' = NoCall /\ rejected' = 0
               /\ UNCHANGED ncalls
          ELSE /\ pc' = IF choice = <<"5">> THEN "exit" ELSE "menu"
               /\ UNCHANGED <<cli_text, shift_input, core_call, ncalls, rejected>>
    /\ UNCHANGED core_vars

\* text = input("Enter text to encrypt: ")
encrypt_interactive_text(typed) ==
    /\ pc = "encrypt_text"
    /\ cli_text' = typed /\ pc' = "encrypt_shift"
    /\ UNCHANGED <<shift_input, core_call, ncalls, rejected>>
    /\ UNCHANGED core_vars

\* The shift prompt handing the entry to the core as typed, unvalidated.
encrypt_interactive_shift_unvalidated(typed) ==
    /\ pc = "encrypt_shift"
    /\ shift_input' = typed
    /\ core_call' = [fn |-> "encrypt", text |-> PyStr(cli_text), shift |-> PyStr(typed)]
    /\ ncalls' = ncalls + 1
    /\ pc' = IF EncryptRun(PyStr(cli_text), PyStr(typed)).outcome = "return"
             THEN "menu" ELSE "crashed"
    /\ UNCHANGED <<cli_text, rejected>>
    /\ UNCHANGED core_vars
\* One round of the while loop of encrypt_interactive and, once the entry
\* is valid, the rest of the function.
encrypt_interactive_shift(typed) ==
    /\ pc = "encrypt_shift"
    /\ shift_input' = typed
    /\ IF IsValidShiftRun(PyStr(typed)).value.n = 1
       THEN LET shift_value == IntOf(PyStr(typed))
            IN IF shift_value.outcome = "raise"
               THEN pc' = "crashed" /\ UNCHANGED <<core_call, ncalls, rejected>>
               ELSE /\ core_call' = [fn |-> "encrypt", text |-> PyStr(cli_text),
                                     shift |-> shift_value.value]
                    /\ ncalls' = ncalls + 1
                    /\ pc' = IF EncryptRun(PyStr(cli_text), shift_value.value).outcome = "return"
                             THEN "menu" ELSE "crashed"
                    /\ UNCHANGED rejected
       ELSE /\ rejected < MaxRejected
            /\ rejected' = rejected + 1
            /\ UNCHANGED <<pc, core_call, ncalls>>
    /\ UNCHANGED cli_text
    /\ UNCHANGED core_vars

\* text = input("Enter text to decrypt: ")
decrypt_interactive_text(typed) ==
    /\ pc = "decrypt_text"
    /\ cli_text' = typed /\ pc' = "decrypt_shift"
    /\ UNCHANGED <<shift_input, core_call, ncalls, rejected>>
    /\ UNCHANGED core_vars

\* One round of the while loop of decrypt_interactive and, once the entry
\* is valid, the rest of the function.
decrypt_interactive_shift(typed) ==
    /\ pc = "decrypt_shift"
    /\ shift_input' = typed
    /\ IF IsValidShiftRun(PyStr(typed)).value.n = 1
       THEN LET shift_value == IntOf(PyStr(typed))
            IN IF shift_value.outcome = "raise"
               THEN pc' = "crashed" /\ UNCHANGED <<core_call, ncalls, rejected>>
               ELSE /\ core_call' = [fn |-> "decrypt", text |-> PyStr(cli_text),
                                     shift |-> shift_value.value]
                    /\ ncalls' = ncalls + 1
                    /\ pc' = IF DecryptRun(PyStr(cli_text), shift_value.value).outcome = "return"
                             THEN "menu" ELSE "crashed"
                    /\ UNCHANGED rejected
       ELSE /\ rejected < MaxRejected
            /\ rejected' = rejected + 1
            /\ UNCHANGED <<pc, core_call, ncalls>>
    /\ UNCHANGED cli_text
    /\ UNCHANGED core_vars

brute_force_interactive(typed) ==
    /\ pc = "brute_force_text"
    /\ cli_text' = typed
    /\ core_call' = [fn |-> "brute_force", text |-> PyStr(typed), shift |-> PyNone]
    /\ ncalls' = ncalls + 1
    /\ pc' = IF BruteForceRun(PyStr(typed)).outcome = "return" THEN "menu" ELSE "crashed"
    /\ UNCHANGED <<shift_input, rejected>>
    /\ UNCHANGED core_vars

frequency_analysis_interactive(typed) ==
    /\ pc = "frequency_text"
    /\ cli_text' = typed
    /\ core_call' = [fn |-> "analyze_frequency", text |-> PyStr(typed), shift |-> PyNone]
    /\ ncalls' = ncalls + 1
    /\ pc' = IF AnalyzeFrequencyRun(PyStr(typed)).outcome = "return" THEN "menu" ELSE "crashed"
    /\ UNCHANGED <<shift_input, rejected>>
    /\ UNCHANGED core_vars

\* input() at the end of the input stream: EOFError leaves every loop.
end_of_input ==
    /\ pc \in {"menu"} \cup TextPrompts \cup ShiftPrompts
    /\ pc' = "eof"
    /\ UNCHANGED <<cli_text, shift_input, core_call, ncalls, rejected>>
    /\ UNCHANGED core_vars

NextCli ==
    \/ pc = "menu" /\ \E typed \in Choices : interactive_mode(typed)
    \/ pc = "encrypt_text" /\ \E typed \in CliTexts : encrypt_interactive_text(typed)
    \/ pc = "encrypt_shift" /\ \E typed \in Entries : encrypt_interactive_shift(typed)
    \/ pc = "decrypt_text" /\ \E typed \in CliTexts : decrypt_interactive_text(typed)
    \/ pc = "decrypt_shift" /\ \E typed \in Entries : decrypt_interactive_shift(typed)
    \/ pc = "brute_force_text" /\ \E typed \in CliTexts : brute_force_interactive(typed)
    \/ pc = "frequency_text" /\ \E typed \in CliTexts : frequency_analysis_interactive(typed)
    \/ end_of_input

SpecCli == Init /\ [][NextCli]_vars

\* ------------------------------------------------------------ properties

LowercaseSet == {lowercase_letters[i] : i \in 1..alphabet_size}
UppercaseSet == {uppercase_letters[i] : i \in 1..alphabet_size}
\* o is the letter k places after c in letters, wrapping at the end.
ShiftedBy(letters, c, o, k) ==
    \E i \in 0..(alphabet_size - 1) :
        letters[i + 1] = c /\ letters[((i + k) % alphabet_size) + 1] = o

\* C1: decrypting what encrypt returned, with the same shift, gives back the
\* text that was encrypted, for every text and every integer shift.
C1_RoundTrip ==
    op = "round_trip" => result.outcome = "return" /\ result.value = text.s
C1_Witness ==
    /\ op = "round_trip" /\ text.s = <<"z", "A", "1">> /\ shift.n = -27
    /\ result.value = <<"z", "A", "1">>

\* C2: encrypt returns a text of the same length in which a lowercase letter
\* at index i has become the lowercase letter at index (i + shift) mod 26, an
\* uppercase letter likewise in the uppercase alphabet, and every other
\* character stands unchanged at its place.
C2_EncryptPerCharacter ==
    (op = "encrypt" /\ result.outcome = "return") =>
        /\ Len(result.value) = Len(text.s)
        /\ \A p \in 1..Len(text.s) :
              LET c == text.s[p]
                  o == result.value[p]
              IN /\ c \in LowercaseSet => ShiftedBy(lowercase_letters, c, o, shift.n)
                 /\ c \in UppercaseSet => ShiftedBy(uppercase_letters, c, o, shift.n)
                 /\ c \notin LowercaseSet \cup UppercaseSet => o = c
C2_Witness ==
    /\ op = "encrypt" /\ text.s = <<"z", "Z", "KELVIN">> /\ shift.n = 3
    /\ result.value = <<"c", "C", "KELVIN">>

\* C3: encrypt works with an effective shift in 0..25, the floor residue of
\* the shift modulo 26 (-3 gives 23, 1000 gives 12, -1000 gives 14), and its
\* result is that of the shift 26 more, of the shift 26 less, and of the
\* effective shift itself.
C3_ShiftPeriodicity ==
    (op = "encrypt" /\ result.outcome = "return") =>
        /\ result.shift.n \in 0..(alphabet_size - 1)
        /\ LET diff == shift.n - result.shift.n
           IN (diff \div alphabet_size) * alphabet_size = diff
        /\ shift.n = -3 => result.shift.n = 23
        /\ shift.n = 1000 => result.shift.n = 12
        /\ shift.n = -1000 => result.shift.n = 14
        /\ result.value = EncryptRun(text, PyInt(shift.n + alphabet_size)).value
        /\ result.value = EncryptRun(text, PyInt(shift.n - alphabet_size)).value
        /\ result.value = EncryptRun(text, result.shift).value
C3_Witness ==
    /\ op = "encrypt" /\ text.s = <<"a", "Z">> /\ shift.n = -3
    /\ result.shift.n = 23 /\ result.value = <<"x", "W">>

\* C4: brute_force returns 26 pairs, with the shifts 0, 1, ..., 25 in this
\* order, the pair of shift k holding decrypt(ciphertext, k): every letter
\* moved back k places; a text without letters comes back unchanged 26 times.
C4_BruteForceComplete ==
    (op = "brute_force" /\ IsStr(text)) =>
        /\ result.outcome = "return"
        /\ Len(result.value) = alphabet_size
        /\ \A k \in 0..(alphabet_size - 1) :
              LET pair == result.value[k + 1]
              IN /\ pair.shift = k
                 /\ pair.text = DecryptRun(text, PyInt(k)).value
                 /\ Len(pair.text) = Len(text.s)
                 /\ \A p \in 1..Len(text.s) :
                       LET c == text.s[p]
                           o == pair.text[p]
                       IN /\ c \in LowercaseSet => ShiftedBy(lowercase_letters, o, c, k)
                          /\ c \in UppercaseSet => ShiftedBy(uppercase_letters, o, c, k)
                          /\ c \notin LowercaseSet \cup UppercaseSet => o = c
C4_Witness ==
    /\ op = "brute_force" /\ text.s = <<"a", "Z", "1">>
    /\ result.value[4] = [shift |-> 3, text |-> <<"x", "W", "1">>]
    /\ result.value[26].shift = 25

\* The number of places of chars that hold l.
Occurrences(l, chars) == Cardinality({p \in 1..Len(chars) : chars[p] = l})
\* The number of places of chars that hold a lowercase letter.
LetterCount(chars) == Cardinality({p \in 1..Len(chars) : chars[p] \in LowercaseSet})
IsLatinLetter(c) == c \in LowercaseSet \cup UppercaseSet

\* The largest -e among the doubles of table: every value is a whole number
\* of units 2^-Scale(table).
RECURSIVE ScaleOver(_, _)
ScaleOver(table, keys) ==
    IF keys = {} THEN 0
    ELSE LET l == CHOOSE x \in keys : TRUE
             rest == ScaleOver(table, keys \ {l})
         IN IF -table[l].e > rest THEN -table[l].e ELSE rest
\* The exact sum of the doubles of table, in units of 2^-scale.
RECURSIVE SumOver(_, _, _)
SumOver(table, keys, scale) ==
    IF keys = {} THEN <<>>
    ELSE LET l == CHOOSE x \in keys : TRUE
         IN BigAdd(BigShl(table[l].m, table[l].e + scale),
                   SumOver(table, keys \ {l}, scale))
\* The values of table sum to exactly 100.
SumsToExactly100(table) ==
    LET scale == ScaleOver(table, DOMAIN table)
    IN BigCmp(SumOver(table, DOMAIN table, scale), BigShl(BigFromInt(100), scale)) = 0
\* The values of table sum to 100 within 10^-6.
SumsTo100WithinTolerance(table) ==
    LET scale == ScaleOver(table, DOMAIN table)
        dist == BigDist(SumOver(table, DOMAIN table, scale),
                        BigShl(BigFromInt(100), scale))
    IN BigCmp(BigMulSmall(BigMulSmall(dist, 1000), 1000), BigShl(BigFromInt(1), scale)) <= 0
\* The double x is within 10^-6 of the rational 100 * c / t.
IsPercentageOf(x, c, t) ==
    LET dist == BigDist(BigMulSmall(x.m, t), BigShl(BigFromInt(100 * c), -x.e))
    IN BigCmp(BigMulSmall(BigMulSmall(dist, 1000), 1000), BigShl(BigFromInt(t), -x.e)) <= 0

\* What C5 says of the table apart from the sum: the keys are the lowercase
\* letters that occur in the case-folded text, each value is
\* (occurrences / letters counted) * 100, and a text with no letter to
\* count gives the empty table, not an error.
FrequencyTableShape ==
    LET folded == Lower(text.s)
        table == result.value
    IN /\ result.outcome = "return"
       /\ DOMAIN table = {l \in LowercaseSet : Occurrences(l, folded) > 0}
       /\ result.total_letters = LetterCount(folded)
       /\ \A l \in DOMAIN table :
             /\ table[l] = FloatMul(FloatDiv(Occurrences(l, folded), LetterCount(folded)), 100)
             /\ IsPercentageOf(table[l], Occurrences(l, folded), LetterCount(folded))
       /\ LetterCount(folded) = 0 => table = EmptyDict

\* C5 as stated: the table has that shape and, when it is not empty, its
\* values sum to 100.
C5_FrequencySumExact ==
    (op = "analyze_frequency" /\ IsStr(text)) =>
        /\ FrequencyTableShape
        /\ result.value # EmptyDict => SumsToExactly100(result.value)

\* C5, amended: the table has that shape and, when it is not empty, its
\* values sum to 100 within the floating-point tolerance 10^-6.
C5_FrequencySumWithinTolerance ==
    (op = "analyze_frequency" /\ IsStr(text)) =>
        /\ FrequencyTableShape
        /\ result.value # EmptyDict => SumsTo100WithinTolerance(result.value)
C5_Witness ==
    /\ op = "analyze_frequency" /\ text.s = <<"a", "A", "z">>
    /\ DOMAIN result.value = {"a", "z"} /\ result.total_letters = 3
    /\ ~SumsToExactly100(result.value)

\* C6: analyze_frequency ignores every character that is not in a-z or A-Z:
\* the letters counted are the Latin letters of the text, and the table is
\* that of the text with all other characters removed.
C6_IgnoresNonLatin ==
    (op = "analyze_frequency" /\ IsStr(text)) =>
        /\ result.total_letters = Len(SelectSeq(text.s, IsLatinLetter))
        /\ result.value = AnalyzeFrequencyRun(PyStr(SelectSeq(text.s, IsLatinLetter))).value

\* C7: encrypt, decrypt, brute_force and analyze_frequency, given a text
\* that is not a str, fail with TypeError and in no other way.
C7_NonTextIsTypeError ==
    (op \in {"encrypt", "decrypt", "brute_force", "analyze_frequency"} /\ ~IsStr(text)) =>
        result.outcome = "raise" /\ result.exc = "TypeError"

\* C8: encrypt and decrypt fail with TypeError on a shift that is not an
\* integer, and fail before any character is transformed: a call that fails
\* has appended nothing to encrypted_text, a call that returns has
\* transformed the whole text, and a str with an integer shift always returns.
C8_ShiftRejectedBeforeWork ==
    op \in {"encrypt", "decrypt"} =>
        /\ ~IsInt(shift) => result.outcome = "raise"
        /\ result.outcome = "raise" =>
              result.exc = "TypeError" /\ result.encrypted_text = <<>>
        /\ result.outcome = "return" =>
              /\ Len(result.value) = Len(text.s)
              /\ result.encrypted_text = result.value
        /\ (IsStr(text) /\ IsInt(shift)) => result.outcome = "return"
C8_Witness ==
    /\ op = "decrypt" /\ text.s = <<"1", "a">> /\ IsStr(text)
    /\ shift = PyStr(<<"a", "b", "c">>)
    /\ result.outcome = "raise" /\ result.exc = "TypeError"
    /\ result.encrypted_text = <<>>

\* C9: is_valid_shift returns a Boolean for every candidate and never fails:
\* True for an int and for integer-looking text, False for other text, for
\* None and for a list.
C9_IsValidShiftTotal ==
    op = "is_valid_shift" =>
        /\ result.outcome = "return"
        /\ result.value.tag = "bool"
        /\ shift.tag = "int" => result.value.n = 1
        /\ shift.tag = "str" =>
              (result.value.n = 1 <=> ParseInt(shift.s).outcome = "return")
        /\ shift.tag \in {"NoneType", "list"} => result.value.n = 0

\* The entry typed at a shift prompt passes is_valid_shift.
PassesIsValidShift(typed) == IsValidShiftRun(PyStr(typed)).value.n = 1

\* C10: in the interactive encrypt and decrypt flows the core is called only
\* from a shift prompt, on an entry that passed is_valid_shift, with the
\* flow's text and the integer the entry stands for; an invalid entry leads
\* back to the same prompt with no call made; so the shift the core is
\* called with is always an integer.
C10_CoreCalledAfterValidation ==
    /\ [](core_call.fn \in {"encrypt", "decrypt"} =>
            /\ core_call.shift.tag = "int"
            /\ PassesIsValidShift(shift_input)
            /\ core_call.shift = IntOf(PyStr(shift_input)).value
            /\ core_call.text = PyStr(cli_text))
    /\ [][(ncalls' # ncalls /\ core_call'.fn \in {"encrypt", "decrypt"}) =>
            /\ pc \in ShiftPrompts
            /\ core_call'.fn = (IF pc = "encrypt_shift" THEN "encrypt" ELSE "decrypt")
            /\ PassesIsValidShift(shift_input')
            /\ core_call'.shift.tag = "int"]_vars
    /\ [][(pc \in ShiftPrompts /\ pc' # "eof" /\ ~PassesIsValidShift(shift_input')) =>
            /\ pc' = pc
            /\ ncalls' = ncalls /\ core_call' = core_call
            /\ rejected' = rejected + 1]_vars
C10_Witness ==
    /\ pc = "menu" /\ rejected = 2 /\ shift_input = <<"-", "7">>
    /\ core_call = [fn |-> "decrypt", text |-> PyStr(<<"H", "i", "1">>), shift |-> PyInt(-7)]

\* C11: brute force on encrypt(t, s) holds t in the pair of shift s mod 26;
\* when t has a Latin letter no other pair holds t, and the 26 candidates
\* are pairwise distinct.
C11_BruteForceRecoversAtUniqueShift ==
    op = "brute_force_encrypted" =>
        /\ result.outcome = "return"
        /\ Len(result.value) = alphabet_size
        /\ LET key == shift.n % alphabet_size
           IN /\ result.value[key + 1].shift = key
              /\ result.value[key + 1].text = text.s
              /\ (\E p \in 1..Len(text.s) : IsLatinLetter(text.s[p])) =>
                    /\ \A k \in 1..alphabet_size :
                          result.value[k].text = text.s => result.value[k].shift = key
                    /\ \A j, k \in 1..alphabet_size :
                          j # k => result.value[j].text # result.value[k].text
C11_Witness ==
    /\ op = "brute_force_encrypted" /\ text.s = <<"1", "z", "A">> /\ shift.n = -27
    /\ result.value[26] = [shift |-> 25, text |-> <<"1", "z", "A">>]
    /\ result.value[1].text = <<"1", "y", "Z">>
====
